---------------------------- MODULE Spec2Model ----------------------------
(***************************************************************************)
(* Model of the Command class of nebula (src/src/Command.ts): the usage    *)
(* ledger with its sweep timer (allowUsage, _sweep), the inhibitor         *)
(* pipeline (composeInhibitors) and the construction of subcommands; of    *)
(* Validator.validate (src/src/Validator/index.ts) and of                  *)
(* ArraySchema.validate (src/src/validator/ArraySchema.ts).                *)
(***************************************************************************)
EXTENDS Integers, Sequences, FiniteSets, TLC

(***************************************************************************)
(* Bounds of the model.                                                    *)
(***************************************************************************)
\* number of allowUsage calls that are recorded in the call log
MaxCalls == 4
\* clock readings are taken in 0..MaxTick and in window..window+MaxTick
MaxTick == 2
\* the short limit window (ms) of the enumerated configurations
SmallWindow == 2
\* the largest configured bucket size
MaxBucket == 2
\* number of composeInhibitors invocations the dispatcher starts
MaxDispatch == 2

(***************************************************************************)
(* Program constants.                                                      *)
(***************************************************************************)
\* limit.time of GuildLimitCommand
TestWindow == 5000
\* defaultOptions.limit.bucket
DefaultBucket == 1
\* defaultOptions.limit.time
DefaultTime == 0
\* defaultOptions.permission.level
DefaultLevel == 0
\* the value of _sweepInterval when no interval is set
Null == 0

Users == {"u1", "u2"}
Guilds == {"g1", "g2"}
limitScopes == {"user", "guild"}

\* what allowUsage, allowNSFW and the hooks read of a Discord.Message: the
\* author id, the guild id and the nsfw flag of the channel; u1 writes in a
\* channel of g1 that is not nsfw and in one that is, u2 in channels of g2
Messages ==
  {m \in [author : Users, guild : Guilds, nsfw : BOOLEAN] :
     (m.author = "u1") <=> (m.guild = "g1")}

VARIABLES
  options,            \* this.options (merged with defaultOptions)
  hasShouldDispatch,  \* whether the subclass defines shouldDispatch
  now,                \* the reading Date.now() gives
  message,            \* this._message
  usage,              \* this.usage : scope id -> <<bucket, time>>
  sweepInterval,      \* this._sweepInterval
  timers,             \* the intervals the runtime holds (setInterval/clearInterval)
  log,                \* the allowUsage calls made so far: id, time, result
  shadow,             \* the ledger the same calls give when no sweep ever runs
  pc,                 \* composeInhibitors: where each invocation is suspended
  inv,                \* composeInhibitors: the locals and effects of each invocation
  dispatched,         \* the number of invocations started
  val,                \* Validator.validate: the schema map, the call and its result
  arr,                \* ArraySchema.validate: the schema, the input and the result
  ctor                \* the constructor of a parent Command: its subcommands

vars == <<options, hasShouldDispatch, now, message, usage, sweepInterval,
          timers, log, shadow, pc, inv, dispatched, val, arr, ctor>>

(***************************************************************************)
(* Command.allowUsage  (Command.ts 377-405)                                *)
(***************************************************************************)
\* the scope id: guild id or author id of the activating message
ScopeId(msg) ==
  IF options.limit.scope = "guild" THEN msg.guild ELSE msg.author

\* Collection.set
CollSet(u, id, entry) ==
  [k \in DOMAIN u \cup {id} |-> IF k = id THEN entry ELSE u[k]]

limitDisabled_always == FALSE
\* if (this.options.limit.time === 0) return true;
limitDisabled == options.limit.time = 0

windowElapsed_inclusive(time, currTime) ==
  currTime - time >= options.limit.time
\* currTime - time > this.options.limit.time
windowElapsed(time, currTime) ==
  currTime - time > options.limit.time

bucketFull_off(bucket) == bucket > options.limit.bucket
bucketFull_early(bucket) == bucket + 1 = options.limit.bucket
\* bucket === this.options.limit.bucket
bucketFull(bucket) == bucket = options.limit.bucket

\* this.usage.set(id, [bucket + 1, currTime])
incremented(bucket, time, currTime) == <<bucket + 1, currTime>>

\* a handle setInterval has not handed out among the live ones
NewHandle(tm) ==
  CHOOSE h \in 1..(Cardinality(tm) + 1) :
    h \notin tm /\ \A g \in 1..(h - 1) : g \in tm

startSweep_unguarded(si, tm) ==
  [sweepInterval |-> NewHandle(tm), timers |-> tm \cup {NewHandle(tm)}]
\* if (this._sweepInterval == null) this._sweepInterval = setInterval(...)
startSweep(si, tm) ==
  IF si = Null
    THEN [sweepInterval |-> NewHandle(tm), timers |-> tm \cup {NewHandle(tm)}]
    ELSE [sweepInterval |-> si, timers |-> tm]

\* the body of allowUsage on the tracker state t = [usage, sweepInterval, timers];
\* gives the returned value and the tracker state it leaves
allowUsage(t, msg, currTime) ==
  IF limitDisabled THEN [ret |-> TRUE, tracker |-> t]
  ELSE
    LET id == ScopeId(msg) IN
    IF id \in DOMAIN t.usage
      THEN LET bucket == t.usage[id][1]
               time == t.usage[id][2]
           IN IF windowElapsed(time, currTime)
                THEN [ret |-> TRUE,
                      tracker |-> [t EXCEPT !.usage = CollSet(@, id, <<1, currTime>>)]]
                ELSE IF bucketFull(bucket)
                  THEN [ret |-> FALSE, tracker |-> t]
                  ELSE [ret |-> TRUE,
                        tracker |-> [t EXCEPT !.usage =
                          CollSet(@, id, incremented(bucket, time, currTime))]]
      ELSE LET s == startSweep(t.sweepInterval, t.timers)
           IN [ret |-> TRUE,
               tracker |-> [usage |-> CollSet(t.usage, id, <<1, currTime>>),
                            sweepInterval |-> s.sweepInterval,
                            timers |-> s.timers]]

(***************************************************************************)
(* Command._sweep  (Command.ts 407-417)                                    *)
(***************************************************************************)
sweepExpired_inclusive(time, currTime) ==
  currTime - time >= options.limit.time
\* ([, time]) => currTime - time > this.options.limit.time
sweepExpired(time, currTime) ==
  currTime - time > options.limit.time

\* Collection.sweep: drop the entries the predicate holds of
CollSweep(u, currTime) ==
  [k \in {j \in DOMAIN u : ~sweepExpired(u[j][2], currTime)} |-> u[k]]

stopSweep_leak(si, tm) == [sweepInterval |-> Null, timers |-> tm]
\* clearInterval(this._sweepInterval!); this._sweepInterval = null;
stopSweep(si, tm) == [sweepInterval |-> Null, timers |-> tm \ {si}]

sweep(t, currTime) ==
  LET u == CollSweep(t.usage, currTime) IN
  IF DOMAIN u = {}
    THEN LET s == stopSweep(t.sweepInterval, t.timers)
         IN [usage |-> u, sweepInterval |-> s.sweepInterval, timers |-> s.timers]
    ELSE [t EXCEPT !.usage = u]

Tracker == [usage |-> usage, sweepInterval |-> sweepInterval, timers |-> timers]

(***************************************************************************)
(* The clock.  Date.now() is read at instants near 0 and near one window   *)
(* later.                                                                  *)
(***************************************************************************)
Times == (0..MaxTick) \cup {options.limit.time + k : k \in 0..MaxTick}

Tick ==
  /\ \E t \in Times : t > now /\ now' = t
  /\ UNCHANGED <<options, hasShouldDispatch, message, usage, sweepInterval,
                 timers, log, shadow, pc, inv, dispatched, val, arr, ctor>>

(***************************************************************************)
(* The constructed Command (Command.ts 315-359).                           *)
(***************************************************************************)
EmptyUsage == [k \in {} |-> <<0, 0>>]

\* limit as merged from defaultOptions and the options argument: either no
\* limit was given, or one with time > 0 and bucket > 0
LimitOptions ==
  {[bucket |-> DefaultBucket, scope |-> "user", time |-> DefaultTime]}
    \cup [bucket : 1..MaxBucket, scope : limitScopes, time : {SmallWindow, TestWindow}]

Invocations == {"a", "b"}

\* the slot a new invocation takes: the first one that is not running
FreeSlot(i) ==
  /\ pc[i] \in {"idle", "done"}
  /\ i = "b" => pc["a"] \notin {"idle", "done"}

\* an invocation of composeInhibitors:
\*   msg        the message the dispatcher set for it
\*   gate       the value the pending await resolves to
\*   evaluated  the gates called so far, each with its result
\*   hooks      the notification hooks invoked
\*   queried    the operation asked of the permission service
\*   usageId    the scope id allowUsage looked up
\*   hookId, hookFound  the scope id didInhibitUsage looked up, and whether
\*              the ledger had an entry for it
\*   ret        the value returned
IdleInv == [msg |-> [author |-> "u1", guild |-> "g1", nsfw |-> FALSE],
            gate |-> FALSE, evaluated |-> <<>>, hooks |-> <<>>,
            queried |-> "none", usageId |-> "none", hookId |-> "none",
            hookFound |-> TRUE, ret |-> "none"]

\* the value of val, arr and ctor where the validators and the subcommands
\* play no part
Off == [pc |-> "off"]

\* _message is not set by the constructor and is not read before the dispatcher
\* sets it; it is given a fixed value until then
InitCommon ==
  /\ now = 0
  /\ message = IdleInv.msg
  /\ usage = EmptyUsage
  /\ sweepInterval = Null
  /\ timers = {}
  /\ log = <<>>
  /\ shadow = [usage |-> EmptyUsage, sweepInterval |-> Null, timers |-> {}]
  /\ pc = [i \in Invocations |-> "idle"]
  /\ inv = [i \in Invocations |-> IdleInv]
  /\ dispatched = 0
  /\ val = Off
  /\ arr = Off
  /\ ctor = Off

(***************************************************************************)
(* The usage tracker on its own: allowUsage calls, sweep ticks, the clock. *)
(***************************************************************************)
Init ==
  /\ options \in [nsfw : {FALSE}, limit : LimitOptions,
                  permission : {[exact |-> FALSE, level |-> DefaultLevel]}]
  /\ hasShouldDispatch = FALSE
  /\ InitCommon

\* one call of allowUsage for the activating message m
AllowUsageCall ==
  \E m \in Messages :
    /\ Len(log) < MaxCalls
    /\ message' = m
    /\ LET r == allowUsage(Tracker, m, now)
           s == allowUsage(shadow, m, now)
       IN /\ usage' = r.tracker.usage
          /\ sweepInterval' = r.tracker.sweepInterval
          /\ timers' = r.tracker.timers
          /\ shadow' = s.tracker
          /\ log' = Append(log, [id |-> ScopeId(m), time |-> now,
                                 allow |-> r.ret, shadowAllow |-> s.ret])
    /\ UNCHANGED <<options, hasShouldDispatch, now, pc, inv, dispatched, val, arr, ctor>>

\* the runtime fires the callback of a live interval
\* (after the microtasks of the running invocations have drained)
SweepTick ==
  /\ timers # {}
  /\ \A i \in Invocations : pc[i] \notin {"awaitUsage", "awaitNSFW"}
  /\ LET t == sweep(Tracker, now)
     IN /\ usage' = t.usage
        /\ sweepInterval' = t.sweepInterval
        /\ timers' = t.timers
  /\ UNCHANGED <<options, hasShouldDispatch, now, message, log, shadow, pc, inv, dispatched, val, arr, ctor>>

Next == AllowUsageCall \/ SweepTick \/ Tick

Spec == Init /\ [][Next]_vars

(***************************************************************************)
(* Properties of the usage tracker.                                        *)
(***************************************************************************)
Window == options.limit.time
BucketMax == options.limit.bucket

\* the entry's age at instant t exceeds the window
Stale(entry, t) == t - entry[2] > Window

\* the entries of ledger u that are not expired at instant t
Fresh(u, t) == [k \in {j \in DOMAIN u : ~Stale(u[j], t)} |-> u[k]]

\* the logged calls of scope id that were allowed
AllowedCalls(id) == {i \in 1..Len(log) : log[i].id = id /\ log[i].allow}

\* the log is exactly four calls for one scope id at t = 0, 1, 2, Window + 1
C1Scenario ==
  /\ BucketMax = 2
  /\ Window = TestWindow
  /\ Len(log) = 4
  /\ \A i \in 1..4 : log[i].id = log[1].id
  /\ <<log[1].time, log[2].time, log[3].time, log[4].time>> = <<0, 1, 2, TestWindow + 1>>
  /\ now = TestWindow + 1

\* C1: with bucket max 2 and window 5000 ms, the calls for one scope id at
\* t = 0, 1, 2 return allow, allow, deny and the call at t = 5001 returns allow
\* and leaves the entry of that scope with bucket 1.
C1_AllowAfterWindow ==
  C1Scenario =>
    /\ <<log[1].allow, log[2].allow, log[3].allow, log[4].allow>>
         = <<TRUE, TRUE, FALSE, TRUE>>
    /\ log[1].id \in DOMAIN usage
    /\ usage[log[1].id][1] = 1

\* C2: with window W > 0 and bucket size B, whatever calls and sweeps were
\* made, no scope id has more than B allowed calls in a time interval of
\* length at most W.
C2_AtMostBPerWindow ==
  Window > 0 =>
    \A id \in Users \cup Guilds :
      \A i \in AllowedCalls(id) :
        Cardinality({j \in AllowedCalls(id) :
                       /\ log[j].time >= log[i].time
                       /\ log[j].time - log[i].time <= Window}) <= BucketMax

\* a scope used its whole bucket inside one window and was then denied
C2_Witness ==
  /\ Window > 0
  /\ \E id \in Users \cup Guilds :
       /\ Cardinality(AllowedCalls(id)) > BucketMax
       /\ \E i \in 1..Len(log) : log[i].id = id /\ ~log[i].allow
       /\ \E i, j \in AllowedCalls(id) : i # j /\ log[j].time - log[i].time <= Window

\* C3: every entry of the usage ledger has a bucket count between 1 and the
\* configured bucket max.
C3_BucketInRange ==
  \A id \in DOMAIN usage : usage[id][1] >= 1 /\ usage[id][1] <= BucketMax

\* an entry that has reached the bucket max, and a call denied on it
C3_Witness ==
  /\ BucketMax = MaxBucket
  /\ \E id \in DOMAIN usage : usage[id][1] = BucketMax
  /\ \E i \in 1..Len(log) : ~log[i].allow

\* C4: when the limit window is 0 every allowUsage call returns allow, the
\* ledger gets no entry and the sweep timer is never started.
C4_DisabledWhenWindowZero ==
  Window = 0 =>
    /\ \A i \in 1..Len(log) : log[i].allow
    /\ usage = EmptyUsage
    /\ sweepInterval = Null
    /\ timers = {}

\* several calls for the same scope were made with the window at 0
C4_Witness ==
  /\ Window = 0
  /\ Len(log) >= 3
  /\ log[1].id = log[2].id /\ log[2].id = log[3].id

\* the constraint on one step of the tracker
C5Step ==
  /\ Len(log') > Len(log) =>
       LET c == log'[Len(log')] IN
       /\ c.allow = c.shadowAllow
       /\ (Window > 0 /\ c.id \in DOMAIN shadow.usage /\ Stale(shadow.usage[c.id], now)) =>
            /\ c.allow
            /\ usage'[c.id] = <<1, now>>
            /\ shadow'.usage[c.id] = <<1, now>>
  /\ Fresh(usage', now') = Fresh(shadow'.usage, now')

\* C5: an expired entry is treated like a missing one: a call on it allows
\* and leaves <<1, now>>; the outcomes of the calls and the non-expired
\* entries are the same whether or not sweeps ran in between.
C5_ExpiredIsMissing == [][C5Step]_vars

\* a call was made for a scope whose expired entry had been swept from the
\* ledger and was still there in the run without sweeps
C5_Witness ==
  /\ Len(log) >= 2
  /\ log[Len(log)].id = log[1].id
  /\ log[Len(log)].time - log[1].time > Window
  /\ log[Len(log)].time = now
  /\ DOMAIN shadow.usage # DOMAIN usage
  /\ log[1].id \in DOMAIN usage

\* C6: the sweep timer is running if and only if the ledger is non-empty,
\* and the runtime holds no interval but the one in _sweepInterval.
C6_TimerIffNonEmpty ==
  /\ (sweepInterval # Null) <=> (usage # EmptyUsage)
  /\ timers = IF sweepInterval = Null THEN {} ELSE {sweepInterval}

\* a second entry was created while the timer was running
C6_Witness ==
  /\ Cardinality(DOMAIN usage) = 2
  /\ sweepInterval # Null
  /\ Cardinality(timers) = 1

\* the constraint on one step of the tracker
C7Step ==
  SweepTick =>
    /\ usage # EmptyUsage
    /\ (\A id \in DOMAIN usage : Stale(usage[id], now)) =>
         /\ usage' = EmptyUsage
         /\ sweepInterval' = Null
         /\ timers' = {}

\* C7: a sweep tick that finds every remaining entry expired empties the
\* ledger and cancels the timer, and a sweep tick only ever runs on a
\* non-empty ledger, so none runs until a call creates a new entry.
C7_LastSweepStops == [][C7Step]_vars

\* the ledger was emptied by a sweep: calls were made, no entry and no timer
\* is left
C7_Witness ==
  /\ Window > 0
  /\ Len(log) >= 1
  /\ usage = EmptyUsage
  /\ timers = {}
  /\ now - log[Len(log)].time > Window

\* the call that this step of the tracker logs
LoggedCall == log'[Len(log')]
CallLogged == Len(log') = Len(log) + 1

\* the constraint on one step of the tracker
C18Step ==
  (/\ CallLogged
   /\ Window > 0
   /\ LoggedCall.id \in DOMAIN usage
   /\ ~Stale(usage[LoggedCall.id], now)
   /\ usage[LoggedCall.id][1] < BucketMax) =>
     /\ LoggedCall.allow
     /\ usage'[LoggedCall.id] =
          <<usage[LoggedCall.id][1] + 1, usage[LoggedCall.id][2]>>

\* C18: a call that finds a non-expired entry <<bucket, t>> with bucket below
\* the max allows and leaves <<bucket + 1, t>>: the timestamp is unchanged.
C18_IncrementKeepsTimestamp == [][C18Step]_vars

\* the constraint on one step of the tracker
C19Step ==
  CallLogged =>
    /\ ~LoggedCall.allow <=>
         /\ LoggedCall.id \in DOMAIN usage
         /\ ~Stale(usage[LoggedCall.id], now)
         /\ usage[LoggedCall.id][1] = BucketMax
    /\ ~LoggedCall.allow =>
         <<usage', sweepInterval', timers'>> = <<usage, sweepInterval, timers>>

\* C19: allowUsage denies exactly when the scope id has an entry whose age is
\* at most the window and whose bucket equals the max; a denied call leaves
\* the ledger and the sweep timer unchanged.
C19_DenyExactlyWhenFull == [][C19Step]_vars

\* a call was denied on an entry whose age equals the window, beside the
\* entry of another scope
C19_Witness ==
  /\ Len(log) >= 2
  /\ ~log[Len(log)].allow
  /\ log[Len(log)].time = now
  /\ log[Len(log)].id \in DOMAIN usage
  /\ now - usage[log[Len(log)].id][2] = Window
  /\ Cardinality(DOMAIN usage) = 2

(***************************************************************************)
(* Command.composeInhibitors  (Command.ts 276-308)                         *)
(*                                                                         *)
(* An invocation runs from one await to the next in one step.  The awaits  *)
(* on allowUsage() and allowNSFW() resolve in microtasks; the awaits on    *)
(* shouldDispatch() and on the permission service may take any time.       *)
(***************************************************************************)
hookOf_swapped(gate) ==
  CASE gate = "usage" -> <<"didInhibitNSFW">>
    [] gate = "nsfw" -> <<"didInhibitUsage">>
    [] gate = "perm" -> <<"didInhibitPerm">>
    [] OTHER -> <<>>
\* the hook invoked when the gate fails: none for shouldDispatch (281),
\* didInhibitUsage (286), didInhibitNSFW (294), didInhibitPerm (302)
hookOf(gate) ==
  CASE gate = "usage" -> <<"didInhibitUsage">>
    [] gate = "nsfw" -> <<"didInhibitNSFW">>
    [] gate = "perm" -> <<"didInhibitPerm">>
    [] OTHER -> <<>>

gateOutcome_noreturn(gate, pass) ==
  [goOn |-> gate = "shouldDispatch" \/ pass,
   hooks |-> IF pass THEN <<>> ELSE hookOf(gate)]
gateOutcome_permissive(gate, pass) ==
  [goOn |-> gate = "perm" \/ pass,
   hooks |-> IF pass \/ gate = "perm" THEN <<>> ELSE hookOf(gate)]
\* if (!allowX) { this.didInhibitX(); return false; }
gateOutcome(gate, pass) ==
  IF pass THEN [goOn |-> TRUE, hooks |-> <<>>]
          ELSE [goOn |-> FALSE, hooks |-> hookOf(gate)]

\* Command.allowNSFW (422-424)
allowNSFW(msg) == ~options.nsfw \/ msg.nsfw

\* Command.allowPerm (430-437): the operation asked of the permission service
allowPerm == IF options.permission.exact THEN "checkExact" ELSE "check"

ReturnFalse_rollback(i, rec, hs) ==
  /\ inv' = [inv EXCEPT ![i] =
       [rec EXCEPT !.ret = "false",
                   !.hooks = @ \o hs,
                   !.hookId = IF hs = <<"didInhibitUsage">>
                                THEN ScopeId(message) ELSE @,
                   !.hookFound = IF hs = <<"didInhibitUsage">>
                                   THEN ScopeId(message) \in DOMAIN usage ELSE @]]
  /\ pc' = [pc EXCEPT ![i] = "done"]
  /\ usage' = [k \in DOMAIN usage \ {ScopeId(message)} |-> usage[k]]
  /\ UNCHANGED <<sweepInterval, timers>>
\* the invocation returns false after invoking the hooks hs; didInhibitUsage
\* (218-224) looks up the entry of the scope id of this.message
ReturnFalse(i, rec, hs) ==
  /\ inv' = [inv EXCEPT ![i] =
       [rec EXCEPT !.ret = "false",
                   !.hooks = @ \o hs,
                   !.hookId = IF hs = <<"didInhibitUsage">>
                                THEN ScopeId(message) ELSE @,
                   !.hookFound = IF hs = <<"didInhibitUsage">>
                                   THEN ScopeId(message) \in DOMAIN usage ELSE @]]
  /\ pc' = [pc EXCEPT ![i] = "done"]
  /\ UNCHANGED <<usage, sweepInterval, timers>>

\* const allowUsage = await this.allowUsage();  (283) up to the await
CallAllowUsage(i, rec, msg) ==
  LET r == allowUsage(Tracker, msg, now) IN
  /\ usage' = r.tracker.usage
  /\ sweepInterval' = r.tracker.sweepInterval
  /\ timers' = r.tracker.timers
  /\ inv' = [inv EXCEPT ![i] =
       [rec EXCEPT !.gate = r.ret,
                   !.evaluated = Append(@, <<"usage", r.ret>>),
                   !.usageId = IF limitDisabled THEN @ ELSE ScopeId(msg)]]
  /\ pc' = [pc EXCEPT ![i] = "awaitUsage"]

\* the dispatcher sets the activating message and calls composeInhibitors,
\* which runs to its first await (276-283); a message event is handled
\* after the microtasks of the running invocations have drained
Dispatch ==
  \E i \in Invocations, m \in Messages, r \in BOOLEAN :
    /\ FreeSlot(i)
    /\ \A j \in Invocations : pc[j] \notin {"awaitUsage", "awaitNSFW"}
    /\ dispatched < MaxDispatch
    /\ dispatched' = dispatched + 1
    /\ message' = m
    /\ IF hasShouldDispatch
         THEN /\ inv' = [inv EXCEPT ![i] =
                   [IdleInv EXCEPT !.msg = m, !.gate = r,
                                   !.evaluated = <<<<"shouldDispatch", r>>>>]]
              /\ pc' = [pc EXCEPT ![i] = "awaitShould"]
              /\ UNCHANGED <<usage, sweepInterval, timers>>
         ELSE /\ r
              /\ CallAllowUsage(i, [IdleInv EXCEPT !.msg = m], m)
    /\ UNCHANGED <<options, hasShouldDispatch, now, log, shadow, val, arr, ctor>>

\* shouldDispatch() resolved (279-283)
ResumeShould ==
  \E i \in Invocations :
    /\ pc[i] = "awaitShould"
    /\ LET out == gateOutcome("shouldDispatch", inv[i].gate) IN
       IF out.goOn THEN CallAllowUsage(i, inv[i], message)
                   ELSE ReturnFalse(i, inv[i], out.hooks)
    /\ UNCHANGED <<options, hasShouldDispatch, now, message, log, shadow, dispatched, val, arr, ctor>>

\* allowUsage() resolved (285-291)
ResumeUsage ==
  \E i \in Invocations :
    /\ pc[i] = "awaitUsage"
    /\ LET out == gateOutcome("usage", inv[i].gate) IN
       IF out.goOn
         THEN /\ inv' = [inv EXCEPT ![i] =
                   [@ EXCEPT !.gate = allowNSFW(message),
                             !.hooks = @ \o out.hooks,
                             !.evaluated = Append(@, <<"nsfw", allowNSFW(message)>>)]]
              /\ pc' = [pc EXCEPT ![i] = "awaitNSFW"]
              /\ UNCHANGED <<usage, sweepInterval, timers>>
         ELSE ReturnFalse(i, inv[i], out.hooks)
    /\ UNCHANGED <<options, hasShouldDispatch, now, message, log, shadow, dispatched, val, arr, ctor>>

\* allowNSFW() resolved; the permission service is asked and answers r (293-299)
ResumeNSFW ==
  \E i \in Invocations, r \in BOOLEAN :
    /\ pc[i] = "awaitNSFW"
    /\ LET out == gateOutcome("nsfw", inv[i].gate) IN
       IF out.goOn
         THEN /\ inv' = [inv EXCEPT ![i] =
                   [@ EXCEPT !.gate = r,
                             !.hooks = @ \o out.hooks,
                             !.queried = allowPerm,
                             !.evaluated = Append(@, <<"perm", r>>)]]
              /\ pc' = [pc EXCEPT ![i] = "awaitPerm"]
              /\ UNCHANGED <<usage, sweepInterval, timers>>
         ELSE /\ r
              /\ ReturnFalse(i, inv[i], out.hooks)
    /\ UNCHANGED <<options, hasShouldDispatch, now, message, log, shadow, dispatched, val, arr, ctor>>

\* allowPerm() resolved (301-307)
ResumePerm ==
  \E i \in Invocations :
    /\ pc[i] = "awaitPerm"
    /\ LET out == gateOutcome("perm", inv[i].gate) IN
       IF out.goOn
         THEN /\ inv' = [inv EXCEPT ![i] =
                   [@ EXCEPT !.ret = "true", !.hooks = @ \o out.hooks]]
              /\ pc' = [pc EXCEPT ![i] = "done"]
              /\ UNCHANGED <<usage, sweepInterval, timers>>
         ELSE ReturnFalse(i, inv[i], out.hooks)
    /\ UNCHANGED <<options, hasShouldDispatch, now, message, log, shadow, dispatched, val, arr, ctor>>

\* the commands the pipeline is run on: with and without shouldDispatch,
\* nsfw or not, exact or minimum permission level, without limit or limited
\* per guild to one use in the short window
InitPipeline ==
  /\ options \in [nsfw : BOOLEAN,
                  limit : {l \in LimitOptions :
                             /\ l.time # TestWindow
                             /\ l.bucket = DefaultBucket
                             /\ l.time # DefaultTime => l.scope = "guild"},
                  permission : [exact : BOOLEAN, level : {DefaultLevel}]]
  /\ hasShouldDispatch \in BOOLEAN
  /\ InitCommon

\* the clock is left alone when no limit is configured: nothing reads it
NextPipeline ==
  \/ Dispatch
  \/ ResumeShould
  \/ ResumeUsage
  \/ ResumeNSFW
  \/ ResumePerm
  \/ SweepTick
  \/ (~limitDisabled /\ Tick)

SpecPipeline == InitPipeline /\ [][NextPipeline]_vars

(***************************************************************************)
(* Properties of the inhibitor pipeline.                                   *)
(***************************************************************************)
\* the gates in the order of section 4.3
GateOrder ==
  IF hasShouldDispatch THEN <<"shouldDispatch", "usage", "nsfw", "perm">>
                       ELSE <<"usage", "nsfw", "perm">>

\* the notification hook that belongs to a gate
HookFor(gate) ==
  CASE gate = "usage" -> <<"didInhibitUsage">>
    [] gate = "nsfw" -> <<"didInhibitNSFW">>
    [] gate = "perm" -> <<"didInhibitPerm">>
    [] gate = "shouldDispatch" -> <<>>

Returned(i) == pc[i] = "done"

\* the gates invocation i evaluated, the last of which failed
FailedAt(i, gate) ==
  /\ inv[i].evaluated # <<>>
  /\ inv[i].evaluated[Len(inv[i].evaluated)] = <<gate, FALSE>>

\* C8: the gates are evaluated in the order custom predicate, usage, NSFW,
\* permission; a gate is evaluated only after every earlier one passed, so
\* nothing after the first failing gate is evaluated (the permission service
\* is not queried); only the hook of the failing gate is invoked, at most one.
C8_OrderedShortCircuit ==
  \A i \in Invocations :
    LET e == inv[i].evaluated IN
    /\ Len(e) <= Len(GateOrder)
    /\ \A k \in 1..Len(e) : e[k][1] = GateOrder[k]
    /\ \A k \in 1..(Len(e) - 1) : e[k][2]
    /\ (inv[i].queried # "none") <=> (\E k \in 1..Len(e) : e[k][1] = "perm")
    /\ Len(inv[i].hooks) <= 1
    /\ ~Returned(i) => inv[i].hooks = <<>>
    /\ Returned(i) =>
         /\ e # <<>>
         /\ inv[i].hooks = IF e[Len(e)][2] THEN <<>> ELSE HookFor(e[Len(e)][1])

\* an invocation was stopped by the NSFW gate after the custom predicate and
\* the usage gate passed
C8_Witness ==
  \E i \in Invocations :
    /\ Returned(i)
    /\ hasShouldDispatch
    /\ FailedAt(i, "nsfw")
    /\ inv[i].hooks = <<"didInhibitNSFW">>
    /\ inv[i].queried = "none"

\* the constraint on one step of an invocation
C9Step ==
  \A i \in Invocations :
    /\ (pc[i] # "awaitShould" /\ pc'[i] = "awaitShould") =>
         <<usage', sweepInterval', timers'>> = <<usage, sweepInterval, timers>>
    /\ (pc[i] = "awaitShould" /\ ~inv[i].gate /\ pc'[i] # "awaitShould") =>
         /\ pc'[i] = "done"
         /\ inv'[i].ret = "false"
         /\ inv'[i].hooks = <<>>
         /\ inv'[i].queried = "none"
         /\ inv'[i].evaluated = <<<<"shouldDispatch", FALSE>>>>
         /\ <<usage', sweepInterval', timers'>> = <<usage, sweepInterval, timers>>

\* C9: when shouldDispatch returns false, composeInhibitors returns false,
\* invokes no hook, leaves the ledger and the timer as they are and does not
\* query the permission service.
C9_PredicateFalseSilent == [][C9Step]_vars

\* the predicate stopped an invocation that the usage gate would have denied
\* and the NSFW gate would have stopped
C9_Witness ==
  \E i \in Invocations :
    /\ Returned(i)
    /\ FailedAt(i, "shouldDispatch")
    /\ inv[i].msg = message
    /\ options.nsfw /\ ~message.nsfw
    /\ Window > 0
    /\ ScopeId(message) \in DOMAIN usage
    /\ ~Stale(usage[ScopeId(message)], now)
    /\ usage[ScopeId(message)][1] = BucketMax

\* the constraint on one step of an invocation
C10Step ==
  \A i \in Invocations :
    /\ (pc[i] # "awaitNSFW" /\ pc'[i] = "awaitNSFW") =>
         inv'[i].gate = (~options.nsfw \/ message.nsfw)
    /\ (pc[i] # "awaitPerm" /\ pc'[i] = "awaitPerm") =>
         inv'[i].queried = IF options.permission.exact THEN "checkExact" ELSE "check"
    /\ (pc[i] # "done" /\ pc'[i] = "done") =>
         LET e == inv'[i].evaluated IN
         /\ inv'[i].ret \in {"true", "false"}
         /\ (inv'[i].ret = "true") <=>
              /\ Len(e) = Len(GateOrder)
              /\ \A k \in 1..Len(e) : e[k] = <<GateOrder[k], TRUE>>

\* C10: composeInhibitors returns true exactly when the custom predicate is
\* absent or returned true and the usage, NSFW and permission gates all
\* passed, and false otherwise; the NSFW gate passes when the command is not
\* nsfw or the channel is, the permission gate is the answer of the service
\* to checkExact (exact) or check.
C10_ReturnsConjunction == [][C10Step]_vars

\* one invocation returned true on an nsfw command with exact permission
\* level, another returned false at the permission gate
C10_Witness ==
  /\ options.nsfw /\ options.permission.exact /\ hasShouldDispatch
  /\ \E i, j \in Invocations :
       /\ Returned(i) /\ inv[i].ret = "true" /\ Len(inv[i].evaluated) = 4
       /\ Returned(j) /\ inv[j].ret = "false" /\ FailedAt(j, "perm")

(***************************************************************************)
(* The pipeline on commands limited per guild with buckets of every size,  *)
(* next to a command without limit.                                        *)
(***************************************************************************)
InitQuota ==
  /\ options \in [nsfw : BOOLEAN,
                  limit : {l \in LimitOptions :
                             /\ l.time # TestWindow
                             /\ l.time = DefaultTime => l.bucket = DefaultBucket
                             /\ l.time # DefaultTime => l.scope = "guild"},
                  permission : {[exact |-> FALSE, level |-> DefaultLevel]}]
  /\ hasShouldDispatch \in BOOLEAN
  /\ InitCommon

SpecQuota == InitQuota /\ [][NextPipeline]_vars

\* invocation i calls allowUsage in this step and is allowed
UsageGatePasses(i) ==
  /\ pc[i] # "awaitUsage"
  /\ pc'[i] = "awaitUsage"
  /\ inv'[i].gate

\* invocation i is past its usage gate and takes a step
StepsAfterUsageGate(i) ==
  /\ pc[i] \in {"awaitUsage", "awaitNSFW", "awaitPerm"}
  /\ pc'[i] # pc[i]

\* the entry of the scope id was created, or its bucket incremented
Charged(id) ==
  /\ id \in DOMAIN usage'
  /\ IF id \in DOMAIN usage /\ ~Stale(usage[id], now)
       THEN usage'[id][1] = usage[id][1] + 1
       ELSE usage'[id] = <<1, now>>

\* the constraint on one step of an invocation, whatever the limit
C22OriginalStep ==
  \A i \in Invocations :
    /\ UsageGatePasses(i) => Charged(ScopeId(message'))
    /\ StepsAfterUsageGate(i) => usage' = usage

\* C22 as stated: every invocation whose usage gate passes has created or
\* incremented the ledger entry of its scope, and no later step of it,
\* a return of false at the NSFW or the permission gate included, changes
\* the ledger.
C22_Original == [][C22OriginalStep]_vars

\* the constraint on one step of an invocation of a limited command
C22Step ==
  \A i \in Invocations :
    /\ (UsageGatePasses(i) /\ ~limitDisabled) => Charged(ScopeId(message'))
    /\ StepsAfterUsageGate(i) => usage' = usage

\* C22: on a command whose limit is enabled (limit.time > 0), an invocation
\* whose usage gate passes has created or incremented the ledger entry of
\* its scope, and no later step of it, a return of false at the NSFW or the
\* permission gate included, changes the ledger.
C22_BlockedStillCharged == [][C22Step]_vars

\* two invocations of one guild passed the usage gate, the second by an
\* increment; one was stopped by the NSFW gate and the other by the
\* permission gate, and the entry still counts both
C22_Witness ==
  /\ ~limitDisabled
  /\ \E i, j \in Invocations :
       /\ Returned(i) /\ inv[i].ret = "false" /\ FailedAt(i, "nsfw")
       /\ Returned(j) /\ inv[j].ret = "false" /\ FailedAt(j, "perm")
       /\ inv[i].usageId = inv[j].usageId
       /\ inv[i].usageId \in DOMAIN usage
       /\ usage[inv[i].usageId][1] = 2

\* C23: however two invocations interleave, the usage gate and the usage
\* hook of each use the scope id of that invocation's own activating
\* message, and didInhibitUsage finds a ledger entry for the id it looks up.
C23_OwnScopeId ==
  \A i \in Invocations :
    /\ inv[i].usageId # "none" => inv[i].usageId = ScopeId(inv[i].msg)
    /\ inv[i].hookId # "none" => inv[i].hookId = ScopeId(inv[i].msg)
    /\ inv[i].hookFound

\* the part of it that holds: the entry looked up by didInhibitUsage exists
HookFindsEntry == \A i \in Invocations : inv[i].hookFound

(***************************************************************************)
(* Validator.validate  (Validator/index.ts 140-211)                        *)
(*                                                                         *)
(* The schema map has the keys a and b, each with a validator of its own.  *)
(* The validators (StringValidator, NumberValidator) are not among the     *)
(* sources: their coerce and the wrapper addRule puts around a rule follow *)
(* sections 3 and 4.1 of the specification.                                *)
(***************************************************************************)
\* Util.entriesOf(schema): the keys in declaration order
Keys == <<"a", "b">>
KeySet == {Keys[k] : k \in 1..Len(Keys)}

\* the raw tokens of a message
Tokens == {"1", "2", "x"}

\* values: undefined, null, strings and numbers
Undefined == [type |-> "undefined"]
NullValue == [type |-> "null"]
Str(s) == [type |-> "string", str |-> s]
Num(n) == [type |-> "number", num |-> n]

\* new ValidationError(value, field, type)
ValidationError(value, field, type) ==
  [value |-> value, field |-> field, type |-> type]

\* parsing a token as a number: null when it is not one
ParseNumber(token) ==
  CASE token = "1" -> Num(1)
    [] token = "2" -> Num(2)
    [] OTHER -> NullValue

\* currValidator.coerce(currValue): the token itself for a string, the parsed
\* number or null for a number
coerce(type, token) ==
  IF type = "number" THEN ParseNumber(token) ELSE Str(token)

\* the rule chains a validator is built with
RuleChains(type) ==
  IF type = "number" THEN {<<>>, <<"min2", "even">>, <<"sameAsA">>}
                     ELSE {<<>>, <<"sameAsA">>}

\* the validators: type, flags.optional, rules
Validators ==
  UNION {[type : {t}, optional : BOOLEAN, rules : RuleChains(t)] :
           t \in {"string", "number"}}

\* ref: (refKey) => valueStore[refKey]
ref(valueStore, refKey) == valueStore[refKey]

\* the predicate of a rule, on the coerced value of its field
ruleHolds(rule, value, valueStore) ==
  CASE rule = "min2" -> value.num >= 2
    [] rule = "even" -> value.num % 2 = 0
    [] rule = "sameAsA" -> value = ref(valueStore, "a").value

\* a rule as addRule wraps it: when the predicate fails, a violation
\* <type>.<rule> is pushed on the errs of the validator
pushError(errs, rule, holds, value, key, type) ==
  IF holds THEN errs
           ELSE Append(errs, ValidationError(value, key, type \o "." \o rule))

\* what a key of the returned object holds: a fresh list of violations, the
\* errs array of the validator of a key (by reference), a value, or null
OwnList(list) == [kind |-> "list", list |-> list]
ErrsOf(key) == [kind |-> "errs", of |-> key]
Value(value) == [kind |-> "value", value |-> value]
NullEntry == [kind |-> "null"]

\* { [currKey]: entry }
Single(key, entry) == [k \in {key} |-> entry]
NoEntries == [k \in {} |-> NullEntry]

missingResult_swapped(optional, err) ==
  IF optional THEN OwnList(err) ELSE NullEntry
\* if (!currValidator.flags.optional) return {[currKey]: err};
\* return {[currKey]: null};
missingResult(optional, err) ==
  IF ~optional THEN OwnList(err) ELSE NullEntry

storeEntry_raw(coerced, type, rawValue) ==
  [value |-> rawValue, type |-> type, rawValue |-> rawValue]
\* valueStore[currKey] = { value: coerced, type, rawValue: currValue }
storeEntry(coerced, type, rawValue) ==
  [value |-> coerced, type |-> type, rawValue |-> rawValue]

abortNow_never(result, abortEarly) == FALSE
\* if (!result && this.options.abortEarly) return ...
abortNow(result, abortEarly) == ~result /\ abortEarly

fieldResult_raw(errs, key, doCoerce, entry) ==
  IF Len(errs) > 0 THEN ErrsOf(key) ELSE Value(entry.rawValue)
\* results[currKey] = errs.length ? errs : coerce ? value : currRawValue
fieldResult(errs, key, doCoerce, entry) ==
  IF Len(errs) > 0 THEN ErrsOf(key)
  ELSE Value(IF doCoerce THEN entry.value ELSE entry.rawValue)

\* the call returns the object ret
Return(v, ret) == [v EXCEPT !.pc = "done", !.ret = ret]

\* the body of the first loop for the entry v.i  (148-176)
coercePass(v) ==
  LET currKey == Keys[v.i]
      currValidator == v.schema[currKey]
      currValue == IF v.i <= Len(v.values) THEN Str(v.values[v.i]) ELSE Undefined
      err == <<ValidationError(currValue, currKey, currValidator.type)>>
  IN IF currValue = Undefined
       THEN Return(v, Single(currKey, missingResult(currValidator.optional, err)))
       ELSE LET coerced == coerce(currValidator.type, v.values[v.i]) IN
            IF coerced = NullValue
              THEN Return(v, Single(currKey, OwnList(err)))
              ELSE [v EXCEPT
                      !.valueStore = [k \in DOMAIN @ \cup {currKey} |->
                         IF k = currKey
                           THEN storeEntry(coerced, currValidator.type, currValue)
                           ELSE @[k]],
                      !.i = IF v.i = Len(Keys) THEN 1 ELSE v.i + 1,
                      !.pc = IF v.i = Len(Keys) THEN "field" ELSE "coerce"]

\* the second loop takes up the entry v.i: currValidator.errs.length = 0  (180-186)
beginField(v) ==
  [v EXCEPT !.errs[Keys[v.i]] = <<>>, !.r = 1, !.pc = "rule"]

\* one rule of the entry v.i is run  (188-201)
runRule(v) ==
  LET currKey == Keys[v.i]
      currValidator == v.schema[currKey]
      rule == currValidator.rules[v.r]
      value == v.valueStore[currKey].value
      result == ruleHolds(rule, value, v.valueStore)
      pushed == [v EXCEPT
                   !.errs[currKey] =
                      pushError(@, rule, result, value, currKey, currValidator.type),
                   !.ruleLog = Append(@, [key |-> currKey, rule |-> rule,
                                          stored |-> DOMAIN v.valueStore,
                                          refA |-> ref(v.valueStore, "a").value,
                                          result |-> result]),
                   !.r = v.r + 1]
  IN IF abortNow(result, v.options.abortEarly)
       THEN Return(pushed, Single(currKey, ErrsOf(currKey)))
       ELSE pushed

\* the rules of the entry v.i are through  (203-210)
endField(v) ==
  LET currKey == Keys[v.i]
      filled == [k \in DOMAIN v.results \cup {currKey} |->
                   IF k = currKey
                     THEN fieldResult(v.errs[currKey], currKey, v.options.coerce,
                                      v.valueStore[currKey])
                     ELSE v.results[k]]
  IN IF v.i = Len(Keys)
       THEN Return([v EXCEPT !.results = filled], filled)
       ELSE [v EXCEPT !.results = filled, !.i = v.i + 1, !.pc = "field"]

\* a Validator with its options and the schema map of a command, before the
\* first call
ValidatorInit ==
  [pc : {"idle"},
   options : [abortEarly : BOOLEAN, coerce : BOOLEAN],
   schema : [KeySet -> Validators],
   values : {<<>>},
   i : {1}, r : {1},
   valueStore : {[k \in {} |-> NullValue]},
   errs : {[k \in KeySet |-> <<>>]},
   results : {NoEntries},
   ret : {NoEntries},
   earlier : {NoEntries},
   earlierSeen : {[k \in {} |-> <<>>]},
   ruleLog : {<<>>},
   again : {FALSE}]

\* the token lists of a call: one token per key at most
TokenLists == UNION {[1..n -> Tokens] : n \in 0..Len(Keys)}

cmdVars == <<options, hasShouldDispatch, now, message, usage, sweepInterval,
             timers, log, shadow, pc, inv, dispatched>>

\* validate(message, values, schema) is called: a first time, and once more
\* on the same schema map after it returned; earlier is the object the
\* first call returned and earlierSeen the violations its caller read in it
ValidateCall ==
  \E values \in TokenLists :
    /\ val.pc = "idle" \/ (val.pc = "done" /\ ~val.again)
    /\ val' = [val EXCEPT !.pc = "coerce", !.values = values, !.i = 1, !.r = 1,
                          !.valueStore = [k \in {} |-> NullValue],
                          !.results = NoEntries, !.ret = NoEntries,
                          !.earlier = val.ret,
                          !.earlierSeen =
                             [k \in DOMAIN val.ret |->
                                IF val.ret[k].kind = "list" THEN val.ret[k].list
                                ELSE IF val.ret[k].kind = "errs"
                                  THEN val.errs[val.ret[k].of]
                                ELSE <<>>],
                          !.ruleLog = <<>>,
                          !.again = (val.pc = "done")]
    /\ UNCHANGED <<cmdVars, arr, ctor>>

CoercePass ==
  /\ val.pc = "coerce"
  /\ val' = coercePass(val)
  /\ UNCHANGED <<cmdVars, arr, ctor>>

BeginField ==
  /\ val.pc = "field"
  /\ val' = beginField(val)
  /\ UNCHANGED <<cmdVars, arr, ctor>>

RunRule ==
  /\ val.pc = "rule"
  /\ val.r <= Len(val.schema[Keys[val.i]].rules)
  /\ val' = runRule(val)
  /\ UNCHANGED <<cmdVars, arr, ctor>>

EndField ==
  /\ val.pc = "rule"
  /\ val.r > Len(val.schema[Keys[val.i]].rules)
  /\ val' = endField(val)
  /\ UNCHANGED <<cmdVars, arr, ctor>>

InitValidator ==
  /\ options \in [nsfw : {FALSE},
                  limit : {[bucket |-> DefaultBucket, scope |-> "user",
                            time |-> DefaultTime]},
                  permission : {[exact |-> FALSE, level |-> DefaultLevel]}]
  /\ hasShouldDispatch = FALSE
  /\ now = 0
  /\ message = IdleInv.msg
  /\ usage = EmptyUsage
  /\ sweepInterval = Null
  /\ timers = {}
  /\ log = <<>>
  /\ shadow = [usage |-> EmptyUsage, sweepInterval |-> Null, timers |-> {}]
  /\ pc = [i \in Invocations |-> "idle"]
  /\ inv = [i \in Invocations |-> IdleInv]
  /\ dispatched = 0
  /\ val \in ValidatorInit
  /\ arr = Off
  /\ ctor = Off

NextValidator ==
  \/ ValidateCall
  \/ CoercePass
  \/ BeginField
  \/ RunRule
  \/ EndField

SpecValidator == InitValidator /\ [][NextValidator]_vars

(***************************************************************************)
(* Properties of Validator.validate.                                       *)
(***************************************************************************)
KeyIndex(k) == CHOOSE j \in 1..Len(Keys) : Keys[j] = k

\* the token given for key k, and whether there is one
Present(k) == KeyIndex(k) <= Len(val.values)
TokenOf(k) == val.values[KeyIndex(k)]

\* the value the token of key k coerces to
CoercedOf(k) == coerce(val.schema[k].type, TokenOf(k))
Coercible(k) == Present(k) /\ CoercedOf(k) # NullValue

\* the violations a key of a returned object holds, as read now
Violations(entry) ==
  CASE entry.kind = "list" -> entry.list
    [] entry.kind = "errs" -> val.errs[entry.of]
    [] OTHER -> <<>>

\* the rules of key k that fail on its coerced value
FailingRules(k) ==
  {j \in 1..Len(val.schema[k].rules) :
     LET rule == val.schema[k].rules[j] IN
     CASE rule = "min2" -> CoercedOf(k).num < 2
       [] rule = "even" -> CoercedOf(k).num % 2 = 1
       [] rule = "sameAsA" -> CoercedOf(k) # CoercedOf("a")}

Done == val.pc = "done"

\* the call returned from the first loop at the key whose token is missing
ReturnedAtMissing(k) ==
  /\ Done
  /\ KeyIndex(k) = Len(val.values) + 1
  /\ \A h \in KeySet : KeyIndex(h) < KeyIndex(k) => Coercible(h)

\* C11: a missing raw value gives, for a validator that is not optional,
\* exactly one violation and that of kind required; for an optional one, the
\* value null and no violation.
C11_MissingIsRequired ==
  \A k \in KeySet :
    ReturnedAtMissing(k) =>
      /\ DOMAIN val.ret = {k}
      /\ IF val.schema[k].optional
           THEN val.ret[k] = NullEntry
           ELSE /\ Len(Violations(val.ret[k])) = 1
                /\ Violations(val.ret[k])[1].type = "required"

\* C12: with abortEarly the call stops at the first rule that fails and no
\* key of the returned object holds more than one violation.
C12_AbortEarlyOneViolation ==
  val.pc # "off" /\ val.options.abortEarly =>
    /\ \A j \in 1..(Len(val.ruleLog) - 1) : val.ruleLog[j].result
    /\ Done => \A k \in DOMAIN val.ret : Len(Violations(val.ret[k])) <= 1

\* the call stopped at the first of two rules that fail on the token
C12_Witness ==
  /\ Done
  /\ val.options.abortEarly
  /\ \E k \in KeySet :
       /\ Coercible(k)
       /\ Cardinality(FailingRules(k)) = 2
       /\ DOMAIN val.ret = {k}
       /\ Len(Violations(val.ret[k])) = 1
       /\ ~val.ruleLog[Len(val.ruleLog)].result

\* C13: without abortEarly, with every token present and coercible, the
\* returned object has every key of the schema map: a key with N >= 1
\* failing rules holds exactly N violations, a key with none holds its
\* value, coerced when coerce is on and raw otherwise.
C13_CollectAll ==
  (Done /\ ~val.options.abortEarly /\ \A k \in KeySet : Coercible(k)) =>
    /\ DOMAIN val.ret = KeySet
    /\ \A k \in KeySet :
         IF FailingRules(k) # {}
           THEN /\ val.ret[k].kind \in {"list", "errs"}
                /\ Len(Violations(val.ret[k])) = Cardinality(FailingRules(k))
           ELSE val.ret[k] =
                  Value(IF val.options.coerce THEN CoercedOf(k) ELSE Str(TokenOf(k)))

\* one key holds two violations, the other its coerced number
C13_Witness ==
  /\ Done /\ ~val.options.abortEarly /\ val.options.coerce
  /\ \A k \in KeySet : Coercible(k)
  /\ \E k, h \in KeySet :
       /\ Cardinality(FailingRules(k)) = 2
       /\ Len(Violations(val.ret[k])) = 2
       /\ FailingRules(h) = {}
       /\ val.ret[h] = Value(Num(2))

\* C14: when a rule is run every key of the schema map has been coerced and
\* stored, and what ref('a').value gives is the coerced value of a, not its
\* raw token.
C14_RulesAfterCoercion ==
  val.pc # "off" =>
    /\ \A k \in DOMAIN val.valueStore :
         /\ Coercible(k)
         /\ val.valueStore[k].value = CoercedOf(k)
         /\ val.valueStore[k].rawValue = Str(TokenOf(k))
    /\ \A j \in 1..Len(val.ruleLog) :
         /\ val.ruleLog[j].stored = KeySet
         /\ val.ruleLog[j].refA = CoercedOf("a")
         /\ val.ruleLog[j].rule = "sameAsA" =>
              (val.ruleLog[j].result <=> CoercedOf(val.ruleLog[j].key) = CoercedOf("a"))

\* a rule of b compared its value with the number a was coerced to
C14_Witness ==
  /\ val.pc # "off"
  /\ val.schema["a"].type = "number"
  /\ \E j \in 1..Len(val.ruleLog) :
       /\ val.ruleLog[j].key = "b"
       /\ val.ruleLog[j].rule = "sameAsA"
       /\ val.ruleLog[j].refA = Num(1)
       /\ val.ruleLog[j].refA # Str(TokenOf("a"))
       /\ val.ruleLog[j].result

\* the first key whose token is missing
FirstMissing(k) == KeyIndex(k) = Len(val.values) + 1

\* the call returned only key k, as null, and ran no rule
OnlyNull(k) ==
  /\ val.ret = Single(k, NullEntry)
  /\ val.ruleLog = <<>>
  /\ val.results = NoEntries

\* C20: when the first key whose token is missing is optional, the call
\* returns an object that holds only that key, as null: no rule is run and
\* the keys declared before it are absent.
C20_Original ==
  \A k \in KeySet :
    (Done /\ FirstMissing(k) /\ val.schema[k].optional) => OnlyNull(k)

\* C20 as amended: the same, when every key declared before the missing one
\* coerces; when one does not, the call has returned the violation of that
\* key before it reaches the missing one.
C20_MissingOptionalReturnsNull ==
  \A k \in KeySet :
    (Done /\ FirstMissing(k) /\ val.schema[k].optional) =>
      IF \A h \in KeySet : KeyIndex(h) < KeyIndex(k) => Coercible(h)
        THEN OnlyNull(k)
        ELSE \E h \in KeySet :
               /\ KeyIndex(h) < KeyIndex(k)
               /\ ~Coercible(h)
               /\ \A g \in KeySet : KeyIndex(g) < KeyIndex(h) => Coercible(g)
               /\ DOMAIN val.ret = {h}
               /\ Len(Violations(val.ret[h])) = 1
               /\ val.ruleLog = <<>>

\* b is optional and missing, a was given and has failing rules that were
\* never run
C20_Witness ==
  /\ Done
  /\ FirstMissing("b")
  /\ val.schema["b"].optional
  /\ Coercible("a")
  /\ FailingRules("a") # {}
  /\ val.ret = Single("b", NullEntry)

(***************************************************************************)
(* ArraySchema.validate  (validator/ArraySchema.ts 104-142)                *)
(*                                                                         *)
(* Schema (the base class, with its validate) and the number schema are    *)
(* not among the sources: they follow section 4.1 of the specification.    *)
(* An optional path is <<>> when it is undefined and <<p>> when it is p.   *)
(***************************************************************************)
\* the longest array validated against a schema of numbers
MaxItems == 3
\* the longest array of arrays, and the longest array inside it
NestItems == 2

Arr(items) == [type |-> "array", items |-> items]

\* no inner schema: this._schema = null
NoSchema == [kind |-> "none"]
NumberSchema(min) == [kind |-> "number", min |-> min]
ArraySchemaOf(inner, min) == [kind |-> "array", inner |-> inner, min |-> min]

\* a violation of kind type at a path
Violation(type, path) == [type |-> type, path |-> path]

\* Array.isArray
check(value) == value.type = "array"

\* Schema.validate of the base class, for a number schema and for the array
\* itself: the type check, then the rule min when the schema has one
schemaValidate(schema, value, opts) ==
  LET typeOK == IF schema.kind = "array" THEN check(value)
                                         ELSE value.type = "number"
      size == IF schema.kind = "array" THEN Len(value.items) ELSE value.num
  IN IF ~typeOK
       THEN [value |-> NullValue,
             errors |-> <<Violation(schema.kind, opts.path)>>,
             pass |-> FALSE, visited |-> <<>>]
       ELSE IF size < schema.min
         THEN [value |-> NullValue,
               errors |-> <<Violation(schema.kind \o ".min", opts.path)>>,
               pass |-> FALSE, visited |-> <<>>]
         ELSE [value |-> value, errors |-> <<>>, pass |-> TRUE, visited |-> <<>>]

elementPath_flat(path, i) == <<ToString(i)>>
\* path == null ? i.toString() : `${path}.${i}`
elementPath(path, i) ==
  IF path = <<>> THEN <<ToString(i)>>
                 ELSE <<path[1] \o "." \o ToString(i)>>

stopAtElement_never(pass, shouldAbortEarly) == FALSE
\* if (!result.pass) { ...; if (shouldAbortEarly) return finalResult; }
stopAtElement(pass, shouldAbortEarly) == ~pass /\ shouldAbortEarly

RECURSIVE arrayValidate(_, _, _)
RECURSIVE elementLoop(_, _, _, _, _)

\* schema.validate(value, options), by the class of the schema
validateWith(schema, value, opts) ==
  IF schema.kind = "array" THEN arrayValidate(schema, value, opts)
                           ELSE schemaValidate(schema, value, opts)

\* the loop over baseResult.value from index i (0-based) with finalResult
\* (121-141); visited lists the indices given to the inner schema
elementLoop(schema, items, opts, i, finalResult) ==
  IF i >= Len(items)
    THEN IF ~finalResult.pass THEN finalResult
                              ELSE [finalResult EXCEPT !.value = Arr(items)]
    ELSE LET result == validateWith(schema.inner, items[i + 1],
                         [opts EXCEPT !.path = elementPath(opts.path, i)])
             pushed == [finalResult EXCEPT
                          !.errors = @ \o result.errors,
                          !.pass = @ /\ result.pass,
                          !.visited = Append(@, i)]
         IN IF stopAtElement(result.pass, opts.shouldAbortEarly)
              THEN pushed
              ELSE elementLoop(schema, items, opts, i + 1, pushed)

\* ArraySchema.validate (104-142)
arrayValidate(schema, value, opts) ==
  LET baseResult == schemaValidate(schema, value, opts) IN
  IF schema.inner = NoSchema \/ ~baseResult.pass \/ ~check(baseResult.value)
    THEN baseResult
    ELSE elementLoop(schema, baseResult.value.items, opts, 0,
                     [value |-> NullValue, errors |-> <<>>, pass |-> TRUE,
                      visited |-> <<>>])

\* the items and the arrays given to the schemas
Items == {Num(1), Num(2), Str("x")}
ArraysUpTo(n, S) == UNION {{Arr(s) : s \in [1..m -> S]} : m \in 0..n}

ArrayInputs ==
  [schema : {ArraySchemaOf(inner, min) :
               inner \in {NoSchema, NumberSchema(0), NumberSchema(2)},
               min \in {0, 2}},
   value : ArraysUpTo(MaxItems, Items) \cup {Str("x")}]
  \cup
  [schema : {ArraySchemaOf(ArraySchemaOf(NumberSchema(0), min), 0) : min \in {0, 2}},
   value : ArraysUpTo(NestItems,
                      ArraysUpTo(NestItems, {Num(1), Str("x")}) \cup {Num(1)})]

NoResult == [value |-> NullValue, errors |-> <<>>, pass |-> FALSE, visited |-> <<>>]

InitArray ==
  /\ options \in [nsfw : {FALSE},
                  limit : {[bucket |-> DefaultBucket, scope |-> "user",
                            time |-> DefaultTime]},
                  permission : {[exact |-> FALSE, level |-> DefaultLevel]}]
  /\ hasShouldDispatch = FALSE
  /\ now = 0
  /\ message = IdleInv.msg
  /\ usage = EmptyUsage
  /\ sweepInterval = Null
  /\ timers = {}
  /\ log = <<>>
  /\ shadow = [usage |-> EmptyUsage, sweepInterval |-> Null, timers |-> {}]
  /\ pc = [i \in Invocations |-> "idle"]
  /\ inv = [i \in Invocations |-> IdleInv]
  /\ dispatched = 0
  /\ val = Off
  /\ \E input \in ArrayInputs,
        opts \in [shouldAbortEarly : BOOLEAN, path : {<<>>, <<"p">>}] :
       arr = [pc |-> "input", schema |-> input.schema, value |-> input.value,
              options |-> opts, result |-> NoResult, root |-> <<>>]
  /\ ctor = Off

\* schema.validate(value, options) is called on the array schema; root is
\* what Validator.setValue was given (119), <<>> when it was not called
ArrayValidate ==
  /\ arr.pc = "input"
  /\ arr' = [arr EXCEPT !.pc = "done",
                        !.result = arrayValidate(arr.schema, arr.value, arr.options),
                        !.root = IF /\ arr.schema.inner # NoSchema
                                    /\ schemaValidate(arr.schema, arr.value,
                                                      arr.options).pass
                                    /\ arr.options.path = <<>>
                                   THEN <<arr.value>> ELSE <<>>]
  /\ UNCHANGED <<cmdVars, val, ctor>>

NextArray == ArrayValidate

SpecArray == InitArray /\ [][NextArray]_vars

(***************************************************************************)
(* Properties of ArraySchema.validate                                      *)
(***************************************************************************)
\* the array-level checks passed on an array schema with an inner schema
ArrayChecked ==
  /\ arr.pc = "done"
  /\ arr.schema.inner # NoSchema
  /\ arr.value.type = "array"
  /\ Len(arr.value.items) >= arr.schema.min

\* a number, or an array of numbers, satisfies the schema
Satisfies(schema, item) ==
  IF schema.kind = "number"
    THEN item.type = "number" /\ item.num >= schema.min
    ELSE /\ item.type = "array"
         /\ Len(item.items) >= schema.min
         /\ \A j \in 1..Len(item.items) :
              /\ item.items[j].type = "number"
              /\ item.items[j].num >= schema.inner.min

\* the 0-based positions inside an array of numbers that are not numbers
BadLeaves(schema, item) ==
  {j \in 0..(Len(item.items) - 1) :
     ~(/\ item.items[j + 1].type = "number"
       /\ item.items[j + 1].num >= schema.inner.min)}

\* the number of violations one element owes
Owed(schema, item, abort) ==
  IF Satisfies(schema, item) THEN 0
  ELSE IF schema.kind = "number" \/ item.type # "array"
          \/ Len(item.items) < schema.min THEN 1
  ELSE IF abort THEN 1
  ELSE Cardinality(BadLeaves(schema, item))

\* the 0-based indices of the elements that fail the inner schema
Failing ==
  {i \in 0..(Len(arr.value.items) - 1) :
     ~Satisfies(arr.schema.inner, arr.value.items[i + 1])}

FirstFailing == CHOOSE i \in Failing : \A j \in Failing : i <= j

\* the indices the call must validate, in order
MustVisit ==
  LET last == IF arr.options.shouldAbortEarly /\ Failing # {}
                THEN FirstFailing + 1 ELSE Len(arr.value.items)
  IN [k \in 1..last |-> k - 1]

RECURSIVE OwedUpTo(_)
OwedUpTo(k) ==
  IF k = 0 THEN 0
  ELSE OwedUpTo(k - 1)
       + Owed(arr.schema.inner, arr.value.items[MustVisit[k] + 1],
              arr.options.shouldAbortEarly)

\* C15: once the array-level checks pass, the elements are validated in
\* index order, up to and including the first failing one when
\* shouldAbortEarly is set and all of them otherwise; the result holds the
\* violations of every validated element; pass is false and value is null
\* when a validated element failed, and otherwise pass is true and value is
\* the array.
C15_ElementsInOrder ==
  ArrayChecked =>
    /\ arr.result.visited = MustVisit
    /\ Len(arr.result.errors) = OwedUpTo(Len(MustVisit))
    /\ arr.result.pass = (Failing = {})
    /\ arr.result.value = IF Failing = {} THEN arr.value ELSE NullValue

\* an array with a failing element followed by another failing element,
\* once with shouldAbortEarly and once without
C15_Witness ==
  /\ ArrayChecked
  /\ Cardinality(Failing) >= 2
  /\ FirstFailing + 2 \in Failing
  /\ \/ arr.options.shouldAbortEarly /\ Len(arr.result.visited) = FirstFailing + 1
     \/ ~arr.options.shouldAbortEarly /\ Len(arr.result.errors) >= 2

Digits == <<"0", "1", "2", "3", "4", "5", "6", "7", "8", "9">>

\* the path of element i of the validated array, as the claim writes it
PathOfElement(i) ==
  IF arr.options.path = <<>> THEN Digits[i + 1]
                             ELSE arr.options.path[1] \o "." \o Digits[i + 1]

\* the paths at which element i may be reported
PathsOf(i) ==
  LET inner == arr.schema.inner
      item == arr.value.items[i + 1]
  IN IF inner.kind = "number" \/ item.type # "array"
        \/ Len(item.items) < inner.min
       THEN {PathOfElement(i)}
       ELSE {PathOfElement(i) \o "." \o Digits[j + 1] : j \in BadLeaves(inner, item)}

\* C16: every violation reported is at the path of a failing element, "i"
\* for element i of an array validated without a path and "<path>.i" for an
\* array validated at <path> (extended by the index inside the element when
\* the element is itself an array), and every failing element that was
\* validated has a violation at its path.
C16_ViolationsCarryElementPath ==
  ArrayChecked =>
    /\ \A k \in 1..Len(arr.result.errors) :
         \E i \in Failing :
           arr.result.errors[k].path \in {<<p>> : p \in PathsOf(i)}
    /\ \A k \in 1..Len(arr.result.visited) :
         arr.result.visited[k] \in Failing =>
           \E e \in 1..Len(arr.result.errors) :
             arr.result.errors[e].path \in
               {<<p>> : p \in PathsOf(arr.result.visited[k])}

\* [1, 2, "x"] against a schema of numbers, collecting all violations: one
\* violation, at path "2"
C16_Witness ==
  /\ arr.pc = "done"
  /\ arr.schema = ArraySchemaOf(NumberSchema(0), 0)
  /\ arr.value = Arr(<<Num(1), Num(2), Str("x")>>)
  /\ ~arr.options.shouldAbortEarly
  /\ arr.options.path = <<>>
  /\ ~arr.result.pass
  /\ arr.result.errors = <<Violation("number", <<"2">>)>>

\* an array of arrays validated at a path reports the inner position too
C16_NestedWitness ==
  /\ ArrayChecked
  /\ arr.options.path = <<"p">>
  /\ \E k \in 1..Len(arr.result.errors) : arr.result.errors[k].path = <<"p.1.0">>

(***************************************************************************)
(* Command.constructor: the subcommands  (Command.ts 361-371)              *)
(*                                                                         *)
(* A declared subcommand class is known by whether its prototype inherits  *)
(* Command and by the isSubcommand option its instances carry.  built      *)
(* lists the instances in the order of their construction.                 *)
(***************************************************************************)
\* the most subcommand classes a parent declares
MaxSubs == 3

SubcommandClasses == [inherits : BOOLEAN, isSubcommand : BOOLEAN]

ClassLists == UNION {[1..n -> SubcommandClasses] : n \in 0..MaxSubs}

\* new Subcommand(this.addon): the instance with the next identity
NewSubcommand(built, class, index) ==
  [id |-> Len(built) + 1, class |-> index,
   options |-> [isSubcommand |-> class.isSubcommand]]

notACommand_never(class) == FALSE
\* !(Subcommand.prototype instanceof Command)
notACommand(class) == ~class.inherits

lacksFlag_never(subcommand) == FALSE
\* !subcommand.options.isSubcommand
lacksFlag(subcommand) == ~subcommand.options.isSubcommand

\* the callback of map from class i on (361-371); c is the constructor's
\* state: the instances built, the ones checked, the ones returned by the
\* callback, and the error thrown
RECURSIVE mapSubcommands(_, _, _)
mapSubcommands(classes, i, c) ==
  IF i > Len(classes) THEN [c EXCEPT !.pc = "done", !.exists = TRUE]
  ELSE IF notACommand(classes[i])
    THEN [c EXCEPT !.pc = "done",
                   !.error = "subcommands must inherit the Command structure"]
  ELSE LET subcommand == NewSubcommand(c.built, classes[i], i)
           built1 == Append(c.built, subcommand)
       IN IF lacksFlag(subcommand)
            THEN [c EXCEPT !.pc = "done", !.built = built1,
                           !.checked = Append(@, subcommand.id),
                           !.error = "subcommands must have isSubcommand set to true"]
            ELSE LET returned == NewSubcommand(built1, classes[i], i)
                 IN mapSubcommands(classes, i + 1,
                      [c EXCEPT !.built = Append(built1, returned),
                                !.checked = Append(@, subcommand.id),
                                !.instantiatedSubcommands = Append(@, returned.id)])

InitCtor ==
  /\ options \in [nsfw : {FALSE},
                  limit : {[bucket |-> DefaultBucket, scope |-> "user",
                            time |-> DefaultTime]},
                  permission : {[exact |-> FALSE, level |-> DefaultLevel]}]
  /\ hasShouldDispatch = FALSE
  /\ now = 0
  /\ message = IdleInv.msg
  /\ usage = EmptyUsage
  /\ sweepInterval = Null
  /\ timers = {}
  /\ log = <<>>
  /\ shadow = [usage |-> EmptyUsage, sweepInterval |-> Null, timers |-> {}]
  /\ pc = [i \in Invocations |-> "idle"]
  /\ inv = [i \in Invocations |-> IdleInv]
  /\ dispatched = 0
  /\ val = Off
  /\ arr = Off
  /\ \E classes \in ClassLists :
       ctor = [pc |-> "new", classes |-> classes, exists |-> FALSE,
               built |-> <<>>, checked |-> <<>>,
               instantiatedSubcommands |-> <<>>, error |-> "", processed |-> 0]

\* new Parent(addon): the constructor runs to its end or to a throw
Construct ==
  /\ ctor.pc = "new"
  /\ ctor' = mapSubcommands(ctor.classes, 1, ctor)
  /\ UNCHANGED <<cmdVars, val, arr>>

\* a message is given to the parent instance (set message, 202-204)
ProcessMessage ==
  /\ ctor.pc = "done"
  /\ ctor.exists
  /\ ctor.processed < MaxDispatch
  /\ ctor' = [ctor EXCEPT !.processed = @ + 1]
  /\ UNCHANGED <<cmdVars, val, arr>>

NextCtor == Construct \/ ProcessMessage

SpecCtor == InitCtor /\ [][NextCtor]_vars

(***************************************************************************)
(* Properties of the constructor                                           *)
(***************************************************************************)
\* a declared class that does not inherit Command or whose instances lack
\* isSubcommand
Misdeclared ==
  \E i \in 1..Len(ctor.classes) :
    ~ctor.classes[i].inherits \/ ~ctor.classes[i].isSubcommand

\* C17: when a declared subcommand class does not inherit Command or its
\* instance lacks isSubcommand, the parent's constructor ends with a thrown
\* configuration error, no parent instance exists, and no message is ever
\* processed by it.
C17_MisdeclaredSubcommandThrows ==
  (ctor.pc # "off" /\ Misdeclared) =>
    /\ ~ctor.exists
    /\ ctor.processed = 0
    /\ ctor.pc = "done" => ctor.error # ""

\* a parent whose second class inherits Command but lacks the flag: the
\* constructor threw after building instances of both classes
C17_Witness ==
  /\ ctor.pc = "done"
  /\ Len(ctor.classes) >= 2
  /\ ctor.classes[2].inherits /\ ~ctor.classes[2].isSubcommand
  /\ ctor.error = "subcommands must have isSubcommand set to true"
  /\ Len(ctor.built) = 3
  /\ ~ctor.exists

\* a parent whose class does not inherit Command
C17_WitnessNotACommand ==
  /\ ctor.pc = "done"
  /\ Len(ctor.classes) >= 1
  /\ ~ctor.classes[1].inherits
  /\ ctor.error = "subcommands must inherit the Command structure"
  /\ ~ctor.exists

\* the instances built from class i
InstancesOf(i) ==
  {k \in 1..Len(ctor.built) : ctor.built[k].class = i}

\* C21: when the parent's constructor has ended, each declared subcommand
\* class reached by it was constructed exactly once, and the instance kept
\* in instantiatedSubcommands is the one whose isSubcommand flag was
\* checked.
C21_SubcommandConstructedOnce ==
  ctor.pc = "done" =>
    /\ \A i \in 1..Len(ctor.classes) : Cardinality(InstancesOf(i)) <= 1
    /\ \A i \in 1..Len(ctor.instantiatedSubcommands) :
         /\ Cardinality(InstancesOf(i)) = 1
         /\ ctor.instantiatedSubcommands[i] = ctor.checked[i]

\* C24: the violations that a validate call returned for a field are not
\* changed by a later validate call on the same schema map: read during and
\* after the later call, the earlier result holds the violations it held
\* when it was returned.
C24_EarlierResultKept ==
  val.again =>
    \A k \in DOMAIN val.earlier :
      Violations(val.earlier[k]) = val.earlierSeen[k]

TypeOK ==
  /\ now \in Times
  /\ message \in Messages
  /\ DOMAIN usage \subseteq Users \cup Guilds
  /\ Len(log) <= MaxCalls

=============================================================================
